---- MODULE Spec2Model ----
(***************************************************************************)
(* State-machine model of the r200_uhf driver: the command codec and frame *)
(* builder (src/src/frame.rs), the packet view (src/src/packet.rs) and the *)
(* Connector operations with the read_from_serial reassembly loop          *)
(* (src/src/connector.rs).  Bytes are naturals in 0..255; sequences are    *)
(* 1-indexed, so Rust index i is TLA+ index i+1.                           *)
(***************************************************************************)
EXTENDS Integers, Sequences, FiniteSets, TLC

VARIABLES
    op,        \* the Connector operation in progress ("none" when idle)
    pc,        \* position inside the operation
    arg,       \* the operation's argument, <<>> when it has none
    writes,    \* frames write_all has written to the port, in order
    sent,      \* what the port answered to each send_packet of the operation
    saved,     \* get_module_info: results of the single reads made so far
    rolling,   \* read_from_serial: local rolling buffer
    output,    \* read_from_serial: local vector of collected packets
    expected,  \* read_from_serial: num_expected_responses (<<>> models None)
    reads,     \* results of port.read in the current read_from_serial call
    nreads,    \* transport reads that delivered data during this operation
    line,      \* kind of traffic on the line: "normal", "flood" or "survey"
    rres,      \* result of the last read_from_serial call
    opres,     \* result of the operation
    cmd,       \* codec: command being encoded
    tuple,     \* codec: Command::to_bytes(cmd)
    frame,     \* codec: bytes of a frame, built by Frame or handed to Packet
    phase,     \* which unit is exercised ("off": the Connector) and its step
    decoded,   \* codec: value decoded from bytes, <<>> before the decoding
    burst,     \* rfid: payloads of the tag notifications of one poll
    tags,      \* rfid: records of the poll not yet inserted into the set
    uniq       \* rfid: the HashSet<Rfid> of the records seen

vars == <<op, pc, arg, writes, sent, saved, rolling, output, expected, reads,
          nreads, line, rres, opres, cmd, tuple, frame, phase, decoded,
          burst, tags, uniq>>

connVars == <<op, pc, arg, writes, sent, saved, rolling, output, expected,
              reads, nreads, line, rres, opres>>

codecVars == <<cmd, tuple, frame, phase, decoded>>

rfidVars == <<burst, tags, uniq>>

----------------------------------------------------------------------------
(* Bounds of the model *)

\* data-delivering transport reads per operation on a normal line
MaxReads == 3

\* data-delivering transport reads per call on a flooded line
MaxFloodReads == 10

----------------------------------------------------------------------------
(* Program constants *)

R200_FRAME_HEADER == 170

R200_FRAME_END == 221

FRAME_TYPE_SEND_COMMAND == 0

INSTRUCTION_READER_WRITER_MODULE_INFO == 3

READ_WRITE_INFO_HARDWARE_VERSION == 0

READ_WRITE_INFO_SOFTWARE_VERSION == 1

READ_WRITE_INFO_MANUFACTURER == 2

\* size of read_buf, the most one port.read can deliver
ReadBufSize == 1024

\* rolling.len() > 8192 triggers the trim
HighWater == 8192

\* the trim keeps the last 4096 bytes
TrimKeep == 4096

\* num_expected_responses.unwrap_or(100000)
DefaultExpected == 100000

\* payload byte 0 of the "no tag" poll response
NoTagSentinel == 21

Byte == 0..255

U16 == 65536

----------------------------------------------------------------------------
(* Generic sequence helpers *)

Last(s) == s[Len(s)]

\* Vec::contains
Contains(s, b) == \E i \in 1..Len(s) : s[i] = b

\* iter().position(|&x| x == b).unwrap(), as a 1-based index
Position(s, b) == CHOOSE i \in 1..Len(s) : s[i] = b /\ \A j \in 1..(i - 1) : s[j] # b

\* the sum of s[lo..hi], by halves
RECURSIVE SumRange(_, _, _)
SumRange(s, lo, hi) ==
    IF lo > hi THEN 0
    ELSE IF lo = hi THEN s[lo]
    ELSE LET mid == (lo + hi) \div 2
         IN  SumRange(s, lo, mid) + SumRange(s, mid + 1, hi)

SumBytes(s) == SumRange(s, 1, Len(s))

Zeros(n) == [i \in 1..n |-> 0]

----------------------------------------------------------------------------
(* frame.rs: Command, SerializableCommand, Frame *)

\* The f64 argument of SetTrasmissionPower is represented by its value in
\* thousandths; x stands for the double nearest to x / 1000.  The inputs are
\* multiples of 0.125, which are exact doubles whose product with 100.0 is
\* exact too, and multiples of 0.01, which in general are not.
PowerInputs == {-1000, 0, 125, 290, 500, 570, 1000, 2560, 2625, 20000, 26500,
                26625, 27500, 30000, 655350, 655375, 700000}

MaxCountInputs == {0, 1, 2, 100, 255, 256, 257, 4096, 10000, 65535}

PlainCommands == {"GetWorkingChannel", "GetWorkingArea", "AcquireTransmitPower",
                  "HardwareVersion", "SoftwareVersion", "Manufacturer",
                  "SinglePollingInstruction", "StopMultiplePollingInstruction"}

Cmd(n) == [name |-> n, p |-> 0]

AllCommands ==
    {Cmd(n) : n \in PlainCommands}
    \cup {[name |-> "SetTrasmissionPower", p |-> x] : x \in PowerInputs}
    \cup {[name |-> "MultiplePollingInstruction", p |-> m] : m \in MaxCountInputs}

RECURSIVE FloorLog2(_)
FloorLog2(n) == IF n < 2 THEN 0 ELSE 1 + FloorLog2(n \div 2)

RECURSIVE Pow2(_)
Pow2(k) == IF k = 0 THEN 1 ELSE 2 * Pow2(k - 1)

RECURSIVE Pow2Mod100(_)
Pow2Mod100(t) == IF t = 0 THEN 1 ELSE (2 * Pow2Mod100(t - 1)) % 100

\* p * 100.0 in IEEE-754 binary64, round to nearest even, for p the double
\* nearest to c / 100 with c in 1..65535: is the product below c?
\* With k = floor(log2 c) and 2^-t the unit in the last place of p,
\* p = q / 2^t where q is the integer nearest to c * 2^t / 100, so the exact
\* product is c - r / 2^t, r being c * 2^t mod 100 taken in -50..49 (t > 2
\* rules out a tie).  The doubles just below c are 2^(k-52) apart, or
\* 2^(k-53) when c is a power of two, and the product rounds to one of them
\* rather than to c when r / 2^t exceeds half that distance: r > 32 when
\* t = 58 - k (c / 2^k >= 1.5625) or c is a power of two, r > 64 otherwise.
F64ProductBelow(c) ==
    LET k == FloorLog2(c)
        gap == IF c * 64 >= 100 * Pow2(k) THEN 6 ELSE 7
        t == 52 - k + gap
        r == ((c % 100) * Pow2Mod100(t)) % 100
    IN  r > 32 /\ r < 50 /\ (gap = 6 \/ c = Pow2(k))

\* (p * 100.0) as u16: the product is rounded as a double, then the cast
\* truncates toward zero and saturates
PowerAsU16(x) ==
    IF x <= 0 THEN 0
    ELSE IF x \div 10 > U16 - 1 THEN U16 - 1
    ELSE IF x % 10 = 0 /\ F64ProductBelow(x \div 10) THEN x \div 10 - 1
    ELSE x \div 10

\* [(v >> 8) as u8, (v & 0xFF) as u8] for a u16 v
BigEndian16(v) == <<(v \div 256) % 256, v % 256>>

ToBytes_wrongOpcode(c) ==
    CASE c.name = "HardwareVersion" ->
            <<<<INSTRUCTION_READER_WRITER_MODULE_INFO>>, <<READ_WRITE_INFO_HARDWARE_VERSION>>>>
      [] c.name = "SoftwareVersion" ->
            <<<<INSTRUCTION_READER_WRITER_MODULE_INFO>>, <<READ_WRITE_INFO_SOFTWARE_VERSION>>>>
      [] c.name = "Manufacturer" ->
            <<<<INSTRUCTION_READER_WRITER_MODULE_INFO>>, <<READ_WRITE_INFO_MANUFACTURER>>>>
      [] c.name = "GetWorkingChannel" -> <<<<170>>, <<>>>>
      [] c.name = "GetWorkingArea" -> <<<<8>>, <<>>>>
      [] c.name = "AcquireTransmitPower" -> <<<<182>>, <<>>>>
      [] c.name = "SetTrasmissionPower" -> <<<<182>>, BigEndian16(PowerAsU16(c.p))>>
      [] c.name = "SinglePollingInstruction" -> <<<<34>>, <<>>>>
      [] c.name = "MultiplePollingInstruction" -> <<<<39>>, BigEndian16(c.p)>>
      [] c.name = "StopMultiplePollingInstruction" -> <<<<40>>, <<>>>>

\* Command::to_bytes: <<command bytes, parameter bytes>>
ToBytes(c) ==
    CASE c.name = "HardwareVersion" ->
            <<<<INSTRUCTION_READER_WRITER_MODULE_INFO>>, <<READ_WRITE_INFO_HARDWARE_VERSION>>>>
      [] c.name = "SoftwareVersion" ->
            <<<<INSTRUCTION_READER_WRITER_MODULE_INFO>>, <<READ_WRITE_INFO_SOFTWARE_VERSION>>>>
      [] c.name = "Manufacturer" ->
            <<<<INSTRUCTION_READER_WRITER_MODULE_INFO>>, <<READ_WRITE_INFO_MANUFACTURER>>>>
      [] c.name = "GetWorkingChannel" -> <<<<170>>, <<>>>>
      [] c.name = "GetWorkingArea" -> <<<<8>>, <<>>>>
      [] c.name = "AcquireTransmitPower" -> <<<<183>>, <<>>>>
      [] c.name = "SetTrasmissionPower" -> <<<<182>>, BigEndian16(PowerAsU16(c.p))>>
      [] c.name = "SinglePollingInstruction" -> <<<<34>>, <<>>>>
      [] c.name = "MultiplePollingInstruction" -> <<<<39>>, BigEndian16(c.p)>>
      [] c.name = "StopMultiplePollingInstruction" -> <<<<40>>, <<>>>>

\* Frame::new: command bytes, big-endian parameter count, parameters
FrameNew(c) ==
    LET payload_size == Len(ToBytes(c)[2]) % U16
    IN  ToBytes(c)[1] \o BigEndian16(payload_size) \o ToBytes(c)[2]

Checksum_noMask(bytes) == SumBytes(bytes) % U16

\* Frame::checksum: u16 sum of the bytes, low 8 bits
Checksum(bytes) == (SumBytes(bytes) % U16) % 256

\* Frame::to_bytes: the checksum covers v[2..], opcode through last parameter
FrameToBytes(payload) ==
    LET v == <<R200_FRAME_HEADER, FRAME_TYPE_SEND_COMMAND>> \o payload
    IN  v \o <<Checksum(SubSeq(v, 3, Len(v)))>> \o <<R200_FRAME_END>>

----------------------------------------------------------------------------
(* packet.rs: Packet, a view on the raw chunk *)

frame_type(raw) == raw[2]

command_code(raw) == raw[3]

data_len_lowFirst(raw) == (raw[5] * 256 + raw[4]) % U16

\* ((raw[3] as u16) << 8) | (raw[4] as u16)
data_len(raw) == (raw[4] * 256 + raw[5]) % U16

\* &raw_data[5..5 + data_len] faults when the range ends past the chunk
GetDataPanics(raw) == Len(raw) < 5 \/ 5 + data_len(raw) > Len(raw)

GetData(raw) == SubSeq(raw, 6, 5 + data_len(raw))

\* Packet::is_valid
IsValid(raw) == 5 + 2 + data_len(raw) = Len(raw)

\* std::str::from_utf8(..).is_ok(), by the UTF-8 well-formedness table
Cont(b) == b >= 128 /\ b <= 191

RECURSIVE IsUtf8(_)
IsUtf8(s) ==
    LET n == Len(s)
        Rest(k) == SubSeq(s, k + 1, n)
    IN  IF n = 0 THEN TRUE
        ELSE IF s[1] < 128 THEN IsUtf8(Rest(1))
        ELSE IF s[1] >= 194 /\ s[1] <= 223
            THEN n >= 2 /\ Cont(s[2]) /\ IsUtf8(Rest(2))
        ELSE IF s[1] = 224
            THEN n >= 3 /\ s[2] >= 160 /\ s[2] <= 191 /\ Cont(s[3]) /\ IsUtf8(Rest(3))
        ELSE IF s[1] = 237
            THEN n >= 3 /\ s[2] >= 128 /\ s[2] <= 159 /\ Cont(s[3]) /\ IsUtf8(Rest(3))
        ELSE IF s[1] >= 225 /\ s[1] <= 239
            THEN n >= 3 /\ Cont(s[2]) /\ Cont(s[3]) /\ IsUtf8(Rest(3))
        ELSE IF s[1] = 240
            THEN n >= 4 /\ s[2] >= 144 /\ s[2] <= 191 /\ Cont(s[3]) /\ Cont(s[4])
                 /\ IsUtf8(Rest(4))
        ELSE IF s[1] >= 241 /\ s[1] <= 243
            THEN n >= 4 /\ Cont(s[2]) /\ Cont(s[3]) /\ Cont(s[4]) /\ IsUtf8(Rest(4))
        ELSE IF s[1] = 244
            THEN n >= 4 /\ s[2] >= 128 /\ s[2] <= 143 /\ Cont(s[3]) /\ Cont(s[4])
                 /\ IsUtf8(Rest(4))
        ELSE FALSE

\* Display for Packet: the payload as text, or the fixed replacement text
PacketToString(raw) ==
    IF IsUtf8(GetData(raw)) THEN [utf8 |-> TRUE, bytes |-> GetData(raw)]
    ELSE [utf8 |-> FALSE, bytes |-> <<>>]

----------------------------------------------------------------------------
(* What the transport can deliver *)

\* a device-to-PC frame, built as the reader builds it
MakeFrame(code, data) ==
    LET len == Len(data) % U16
        v == <<R200_FRAME_HEADER, 1, code>> \o BigEndian16(len) \o data
    IN  v \o <<(SumBytes(SubSeq(v, 3, Len(v))) % U16) % 256>> \o <<R200_FRAME_END>>

Noise == <<0, 255, 19, 55>>

FArea2 == MakeFrame(8, <<2>>)

FArea3 == MakeFrame(8, <<3>>)

FArea5 == MakeFrame(8, <<5>>)

FChan7 == MakeFrame(170, <<7>>)

TwoFrames == FArea2 \o FChan7

\* a frame split over two reads
HeadPart == SubSeq(FArea3, 1, 5)

TailPart == SubSeq(FArea3, 6, Len(FArea3))

EmptyPayload == MakeFrame(40, <<>>)

\* declares 2 payload bytes and carries 1: get_data takes the checksum and END
BadLenShort == <<170, 1, 8, 0, 2, 5, 221>>

\* declares 9 payload bytes in a 7-byte chunk
BadLenLong == <<170, 1, 8, 0, 9, 5, 221>>

\* an END byte ahead of the first HEADER byte
EndFirst == <<221, 0, 170>>

FText == MakeFrame(3, <<72, 87>>)

FNotText == MakeFrame(3, <<255>>)

FPower == MakeFrame(183, <<10, 190>>)

FPowerShort == MakeFrame(183, <<10>>)

FAck == MakeFrame(182, <<0>>)

FNack == MakeFrame(182, <<1>>)

TagData1 == <<55, 48, 18, 222, 173, 190, 239, 1, 2, 3, 4, 5, 0, 0, 0, 171, 205>>

TagData2 == <<60, 32, 52, 17, 34, 51, 68, 85, 102, 119, 136, 153, 0, 0, 0, 18, 52>>

FTag1 == MakeFrame(34, TagData1)

FTag2 == MakeFrame(34, TagData2)

FNoTag == MakeFrame(34, <<NoTagSentinel>>)

FTagShort == MakeFrame(34, <<55, 48, 18>>)

\* a tag whose RSSI byte has the value of the no-tag sentinel
TagData3 == <<NoTagSentinel, 48, 0, 1, 2, 3, 4, 5, 6, 7, 8, 9, 10, 11, 12, 86, 120>>

FTag3 == MakeFrame(34, TagData3)

CommonChunks == {Noise, TwoFrames, HeadPart, TailPart, EmptyPayload,
                 BadLenShort, BadLenLong, EndFirst}

Responses(o) ==
    CASE o = "get_module_info" -> {FText, FNotText}
      [] o = "get_working_area" -> {FArea2, FArea5}
      [] o = "get_working_channel" -> {FChan7, FArea3, FArea5}
      [] o = "get_transmit_power" -> {FPower, FPowerShort}
      [] o = "set_trasmission_power" -> {FAck, FNack}
      [] o = "single_polling_instruction" -> {FTag1, FTag2, FTag3, FNoTag, FTagShort}
      [] o = "read_from_serial" -> {FArea2, FChan7}

NormalChunks(o) == CommonChunks \cup Responses(o)

\* payloads of one to three bytes: every single byte, and the pairs and
\* triples over an ordinary byte, the HEADER byte and the END byte
MarkerBytes == {17, R200_FRAME_HEADER, R200_FRAME_END}

PayloadInputs ==
    {<<b>> : b \in Byte}
    \cup {<<a, b>> : a \in MarkerBytes, b \in MarkerBytes}
    \cup {<<a, b, c>> : a \in MarkerBytes, b \in MarkerBytes, c \in MarkerBytes}

\* well-formed notification and power frames over these payloads; the
\* checksum byte takes the values HEADER and END among them
PayloadFrames ==
    {MakeFrame(code, data) : code \in {34, 183}, data \in PayloadInputs}

\* the payload bytes a well-formed frame was built with
PayloadOf(f) == SubSeq(f, 6, Len(f) - 2)

\* a survey line answers each request with one response frame whose payload
\* byte ranges over all the values: the area, the channel index followed by
\* the area, the acknowledgement; a bare read receives one whole frame
SurveyResponses(o, p) ==
    CASE o = "get_working_area" -> {MakeFrame(8, <<b>>) : b \in Byte}
      [] o = "get_working_channel" /\ p = "read1" -> {MakeFrame(170, <<i>>) : i \in Byte}
      [] o = "get_working_channel" /\ p = "read2" -> {MakeFrame(8, <<b>>) : b \in 0..5}
      [] o = "set_trasmission_power" -> {MakeFrame(182, <<b>>) : b \in Byte}
      [] o = "read_from_serial" -> PayloadFrames

\* a full read buffer holding a HEADER byte and no END byte
FloodNoEnd == <<R200_FRAME_HEADER>> \o Zeros(ReadBufSize - 1)

\* a full read buffer of HEADER END pairs
FloodPairs ==
    [i \in 1..ReadBufSize |-> IF i % 2 = 1 THEN R200_FRAME_HEADER ELSE R200_FRAME_END]

FloodChunks == {FloodNoEnd, FloodPairs}

----------------------------------------------------------------------------
(* connector.rs: read_from_serial *)

Some(ps) == [kind |-> "Some", packets |-> ps]

Res(k) == [kind |-> k, packets |-> <<>>]

Limit_oneMore(exp) == IF exp = <<>> THEN DefaultExpected ELSE exp[1] + 1

\* num_expected_responses.unwrap_or(100000) as usize
Limit(exp) == IF exp = <<>> THEN DefaultExpected ELSE exp[1]

DiscardNoise_keep(buf) == buf

\* rolling.clear() when the buffer holds no HEADER byte
DiscardNoise(buf) == <<>>

AwaitEnd_clear(buf) == <<>>

\* continue with the buffer untouched when it holds no END byte
AwaitEnd(buf) == buf

\* &rolling[first_frame_index..last_frame_index + 1] faults when the range
\* starts past its end
SlicePanics(buf) ==
    Position(buf, R200_FRAME_HEADER) > Position(buf, R200_FRAME_END) + 1

Candidate(buf) ==
    SubSeq(buf, Position(buf, R200_FRAME_HEADER), Position(buf, R200_FRAME_END))

Framed(chunk) ==
    /\ Len(chunk) > 4
    /\ chunk[1] = R200_FRAME_HEADER
    /\ Last(chunk) = R200_FRAME_END

\* rolling.drain(..last_frame_index + 1)
Drain(buf) == SubSeq(buf, Position(buf, R200_FRAME_END) + 1, Len(buf))

\* if rolling.len() > 8192 { rolling.drain(..rolling.len() - 4096) }
Trim(buf) ==
    IF Len(buf) > HighWater THEN SubSeq(buf, Len(buf) - TrimKeep + 1, Len(buf))
    ELSE buf

Collects_always(chunk) == TRUE

\* if !p.get_data().is_empty(): only a packet with a payload is pushed
Collects(chunk) == GetData(chunk) # <<>>

Step(r, o, c) == [rolling |-> r, output |-> o, ctl |-> c]

\* the Ok(n) if n > 0 arm: one iteration of the loop on the bytes just read
OnData(roll, out, exp, bytes) ==
    LET buf == roll \o bytes
    IN  IF ~Contains(buf, R200_FRAME_HEADER)
            THEN Step(DiscardNoise(buf), out, "continue")
        ELSE IF ~Contains(buf, R200_FRAME_END)
            THEN Step(AwaitEnd(buf), out, "continue")
        ELSE IF SlicePanics(buf)
            THEN Step(buf, out, "panic")
        ELSE LET chunk == Candidate(buf)
             IN  IF ~Framed(chunk)
                     THEN Step(Trim(Drain(buf)), out, "continue")
                 ELSE IF GetDataPanics(chunk)
                     THEN Step(buf, out, "panic")
                 ELSE IF ~Collects(chunk)
                     THEN Step(Trim(Drain(buf)), out, "continue")
                 ELSE IF Len(out) + 1 >= Limit(exp)
                     THEN Step(buf, Append(out, chunk), "return")
                 ELSE Step(Trim(Drain(buf)), Append(out, chunk), "continue")

OnZero_keepsPackets(out) == IF out = <<>> THEN Res("None") ELSE Some(out)

\* the Ok(_) arm, n == 0: return Ok(None)
OnZero(out) == Res("None")

OnError_asTimeout(out) == IF out = <<>> THEN Res("Timeout") ELSE Some(out)

\* the Err(e) arm for every kind but TimedOut
OnError(out) == Res("SerialRead")

OnTimeout_alwaysError(out) == Res("Timeout")

OnTimeout_lastOnly(out) == IF out = <<>> THEN Res("Timeout") ELSE Some(<<Last(out)>>)

OnTimeout_keepsReading(out) == IF out = <<>> THEN Res("Timeout") ELSE Res("running")

\* the TimedOut arm
OnTimeout(out) == IF out = <<>> THEN Res("Timeout") ELSE Some(out)

----------------------------------------------------------------------------
(* connector.rs: results and the interpretation of responses *)

Ok(v) == [kind |-> "Ok", err |-> "", val |-> v]

Err(e) == [kind |-> "Err", err |-> e, val |-> <<>>]

Panic == [kind |-> "panic", err |-> "", val |-> <<>>]

Pending == [kind |-> "pending", err |-> "", val |-> <<>>]

\* single_read_from_serial: read_from_serial(Some(1))?, then pop
SingleRead(r) ==
    CASE r.kind = "Some" -> [kind |-> "Ok", err |-> "", pkt |-> <<Last(r.packets)>>]
      [] r.kind = "None" -> [kind |-> "Ok", err |-> "", pkt |-> <<>>]
      [] OTHER -> [kind |-> "Err", err |-> r.kind, pkt |-> <<>>]

AreaNames == <<"China900Mhz", "China800Mhz", "US", "EU", "Korea">>

WorkingAreaResult_noKorea(sr) ==
    IF sr.kind = "Err" THEN Err(sr.err)
    ELSE IF sr.pkt = <<>> THEN Err("NoPacketReceived")
    ELSE LET b == GetData(sr.pkt[1])[1]
         IN  IF b \in 0..3 THEN Ok(AreaNames[b + 1]) ELSE Err("InvalidWorkingArea")

\* get_working_area, after send_packet
WorkingAreaResult(sr) ==
    IF sr.kind = "Err" THEN Err(sr.err)
    ELSE IF sr.pkt = <<>> THEN Err("NoPacketReceived")
    ELSE LET b == GetData(sr.pkt[1])[1]
         IN  IF b \in 0..4 THEN Ok(AreaNames[b + 1]) ELSE Err("InvalidWorkingArea")

ChannelKHz_oneStep(index, area) ==
    CASE area = "China900Mhz" -> index * 250 + 920125
      [] area = "China800Mhz" -> index * 250 + 840125
      [] area = "US" -> index * 250 + 902250
      [] area = "EU" -> index * 250 + 865100
      [] area = "Korea" -> index * 250 + 917100

\* get_working_channel: index * step + base, in kHz
ChannelKHz(index, area) ==
    CASE area = "China900Mhz" -> index * 250 + 920125
      [] area = "China800Mhz" -> index * 250 + 840125
      [] area = "US" -> index * 500 + 902250
      [] area = "EU" -> index * 200 + 865100
      [] area = "Korea" -> index * 200 + 917100

\* get_working_channel, once the inner get_working_area has returned
WorkingChannelResult(p, area) ==
    IF area.kind = "Ok" THEN Ok(ChannelKHz(GetData(p)[1], area.val)) ELSE area

\* get_transmit_power, in hundredths; data[1] faults on a 1-byte payload
TransmitPowerResult(sr) ==
    IF sr.kind = "Err" THEN Err(sr.err)
    ELSE IF sr.pkt = <<>> THEN Err("NoPacketReceived")
    ELSE LET data == GetData(sr.pkt[1])
         IN  IF Len(data) < 2 THEN Panic
             ELSE Ok((((data[1] * 16 * 16) % U16) + data[2]) % U16)

SetPowerResult_anyPacket(sr) ==
    IF sr.kind = "Err" THEN Err(sr.err)
    ELSE IF sr.pkt # <<>> THEN Ok(<<>>)
    ELSE Err("NoPacketReceived")

\* set_trasmission_power
SetPowerResult(sr) ==
    IF sr.kind = "Err" THEN Err(sr.err)
    ELSE IF sr.pkt # <<>> /\ GetData(sr.pkt[1])[1] = 0 THEN Ok(<<>>)
    ELSE Err("NoPacketReceived")

\* get_module_info: hardware?.unwrap(), software?.unwrap(), manufacture?.unwrap()
\* are evaluated in this order by format!
ModuleInfoResult(s) ==
    LET bad == {i \in 1..3 : s[i].kind = "Err" \/ s[i].pkt = <<>>}
    IN  IF bad = {} THEN Ok([i \in 1..3 |-> PacketToString(s[i].pkt[1])])
        ELSE LET i == CHOOSE k \in bad : \A j \in bad : k <= j
             IN  IF s[i].kind = "Err" THEN Err(s[i].err) ELSE Panic

\* the Rfid literal of single_polling_instruction
TagOf(data) ==
    [rssi |-> data[1],
     pc   |-> (((data[2] * 16 * 16) % U16) + data[3]) % U16,
     epc  |-> SubSeq(data, 4, 12),
     crc  |-> (((data[16] * 16 * 16) % U16) + data[17]) % U16]

PollResult_anySentinel(r) ==
    IF r.kind \notin {"Some", "None"} THEN Ok(<<>>)
    ELSE LET ps == IF r.kind = "Some" THEN r.packets ELSE <<>>
         IN  IF \E i \in 1..Len(ps) : GetData(ps[i])[1] = NoTagSentinel THEN Ok(<<>>)
             ELSE IF \E i \in 1..Len(ps) : Len(GetData(ps[i])) < 17 THEN Panic
             ELSE Ok([i \in 1..Len(ps) |-> TagOf(GetData(ps[i]))])

\* single_polling_instruction, after send_packet: a failed read skips the
\* if let Ok(ps) block and the empty rfids vector is returned
PollResult(r) ==
    IF r.kind \notin {"Some", "None"} THEN Ok(<<>>)
    ELSE LET ps == IF r.kind = "Some" THEN r.packets ELSE <<>>
         IN  IF Len(ps) = 1 /\ GetData(ps[1])[1] = NoTagSentinel THEN Ok(<<>>)
             ELSE IF \E i \in 1..Len(ps) : Len(GetData(ps[i])) < 17 THEN Panic
             ELSE Ok([i \in 1..Len(ps) |-> TagOf(GetData(ps[i]))])

\* a direct call of read_from_serial
ReadResult(r) ==
    IF r.kind \in {"Some", "None"} THEN Ok(r) ELSE Err(r.kind)

----------------------------------------------------------------------------
(* connector.rs: the operations as sequences of writes and reads *)

Operations == {"get_module_info", "get_working_area", "get_working_channel",
               "get_transmit_power", "set_trasmission_power",
               "single_polling_instruction", "read_from_serial"}

NeedsResponse == Operations \ {"read_from_serial"}

Calls ==
    {[op |-> o, arg |-> <<>>, line |-> "normal"] :
        o \in Operations \ {"set_trasmission_power"}}
    \cup {[op |-> "set_trasmission_power", arg |-> <<x>>, line |-> "normal"] :
            x \in {26500, 30000}}
    \cup {[op |-> "read_from_serial", arg |-> <<k>>, line |-> "normal"] : k \in {1, 2}}
    \cup {[op |-> "read_from_serial", arg |-> <<>>, line |-> "flood"]}
    \cup {[op |-> o, arg |-> <<>>, line |-> "survey"] :
            o \in {"get_working_area", "get_working_channel"}}
    \cup {[op |-> "set_trasmission_power", arg |-> <<26500>>, line |-> "survey"]}
    \cup {[op |-> "read_from_serial", arg |-> a, line |-> "survey"] :
            a \in {<<>>, <<1>>}}

SendPcs == {"send1", "send2", "send3"}

ReadPcs == {"read1", "read2", "read3"}

ReadAfter(p) ==
    CASE p = "send1" -> "read1" [] p = "send2" -> "read2" [] p = "send3" -> "read3"

CommandAt_areaFirst(o, p, a) ==
    CASE o = "get_module_info" /\ p = "send1" -> Cmd("HardwareVersion")
      [] o = "get_module_info" /\ p = "send2" -> Cmd("SoftwareVersion")
      [] o = "get_module_info" /\ p = "send3" -> Cmd("Manufacturer")
      [] o = "get_working_area" -> Cmd("GetWorkingArea")
      [] o = "get_working_channel" /\ p = "send1" -> Cmd("GetWorkingArea")
      [] o = "get_working_channel" /\ p = "send2" -> Cmd("GetWorkingChannel")
      [] o = "get_transmit_power" -> Cmd("AcquireTransmitPower")
      [] o = "set_trasmission_power" -> [name |-> "SetTrasmissionPower", p |-> a[1]]
      [] o = "single_polling_instruction" -> Cmd("SinglePollingInstruction")

\* the command each send_packet call of an operation is given
CommandAt(o, p, a) ==
    CASE o = "get_module_info" /\ p = "send1" -> Cmd("HardwareVersion")
      [] o = "get_module_info" /\ p = "send2" -> Cmd("SoftwareVersion")
      [] o = "get_module_info" /\ p = "send3" -> Cmd("Manufacturer")
      [] o = "get_working_area" -> Cmd("GetWorkingArea")
      [] o = "get_working_channel" /\ p = "send1" -> Cmd("GetWorkingChannel")
      [] o = "get_working_channel" /\ p = "send2" -> Cmd("GetWorkingArea")
      [] o = "get_transmit_power" -> Cmd("AcquireTransmitPower")
      [] o = "set_trasmission_power" -> [name |-> "SetTrasmissionPower", p |-> a[1]]
      [] o = "single_polling_instruction" -> Cmd("SinglePollingInstruction")

\* the expected count each read_from_serial call of an operation is given
ExpectedAt(o, a) ==
    CASE o = "single_polling_instruction" -> <<>>
      [] o = "read_from_serial" -> a
      [] OTHER -> <<1>>

Init ==
    /\ op = "none" /\ pc = "idle" /\ arg = <<>>
    /\ writes = <<>> /\ saved = <<>>
    /\ rolling = <<>> /\ output = <<>> /\ expected = <<>>
    /\ reads = <<>> /\ nreads = 0 /\ line = "normal" /\ sent = <<>>
    /\ rres = Res("idle") /\ opres = Pending
    /\ cmd = Cmd("GetWorkingArea") /\ tuple = <<>> /\ frame = <<>> /\ phase = "off"
    /\ decoded = <<>> /\ burst = <<>> /\ tags = <<>> /\ uniq = {}

\* entry of read_from_serial: fresh locals
EnterRead(o, a) ==
    /\ rolling' = <<>>
    /\ output' = <<>>
    /\ reads' = <<>>
    /\ expected' = ExpectedAt(o, a)
    /\ rres' = Res("running")

\* the caller invokes an operation of the Connector
Call(c) ==
    /\ op = "none"
    /\ phase = "off"
    /\ op' = c.op /\ arg' = c.arg /\ line' = c.line
    /\ IF c.op = "read_from_serial"
           THEN pc' = "read1" /\ EnterRead(c.op, c.arg)
           ELSE /\ pc' = "send1"
                /\ UNCHANGED <<rolling, output, reads, expected, rres>>
    /\ UNCHANGED <<writes, sent, saved, nreads, opres, codecVars, rfidVars>>

SendPacketResult_flushUnchecked(w) ==
    IF w = "write_all" THEN Err("Io") ELSE Ok(<<>>)

\* send_packet, given what the port answered ("ok": both calls succeed,
\* "write_all": write_all fails, "flush": write_all succeeds and flush
\* fails): write_all(&frame)? then flush()? then Ok(()); an io::Error
\* becomes ConnectorError::Io
SendPacketResult(w) ==
    IF w = "ok" THEN Ok(<<>>) ELSE Err("Io")

\* self.send_packet(command)? inside an operation: the frame reaches the
\* port unless write_all fails; on Ok the operation goes on to its read, on
\* Err the ? operator returns the error from the operation
Send(w) ==
    /\ pc \in SendPcs
    /\ sent' = Append(sent, w)
    /\ writes' = IF w = "write_all" THEN writes
                 ELSE Append(writes, FrameToBytes(FrameNew(CommandAt(op, pc, arg))))
    /\ LET r == SendPacketResult(w)
       IN  IF r.kind = "Ok"
               THEN /\ pc' = ReadAfter(pc)
                    /\ EnterRead(op, arg)
                    /\ opres' = opres
               ELSE /\ pc' = "done"
                    /\ opres' = r
                    /\ UNCHANGED <<rolling, output, expected, reads, rres>>
    /\ UNCHANGED <<op, arg, saved, nreads, line, codecVars, rfidVars>>

\* send_packet succeeds: the frame is written and flushed, the read begins
SendPacket == Send("ok")

\* write_all fails: nothing is written and ? returns the Io error
WriteFails == Send("write_all")

\* write_all succeeds and flush fails: ? returns the Io error
FlushFails == Send("flush")

Reading == pc \in ReadPcs /\ rres.kind = "running"

Event(k, b) == [kind |-> k, bytes |-> b]

\* port.read returns Ok(n) with n > 0
ReadData(bytes) ==
    /\ Reading
    /\ LET s == OnData(rolling, output, expected, bytes)
       IN  /\ rolling' = s.rolling
           /\ output' = s.output
           /\ rres' = CASE s.ctl = "continue" -> rres
                        [] s.ctl = "return" -> Some(s.output)
                        [] s.ctl = "panic" -> Res("panic")
    /\ reads' = Append(reads, Event("data", bytes))
    /\ nreads' = nreads + 1
    /\ UNCHANGED <<op, pc, arg, writes, sent, saved, expected, line, opres,
                   codecVars, rfidVars>>

ReadNormal ==
    /\ Reading
    /\ line = "normal"
    /\ nreads < MaxReads
    /\ \E bytes \in NormalChunks(op) : ReadData(bytes)

ReadFlood ==
    /\ Reading
    /\ line = "flood"
    /\ nreads < MaxFloodReads
    /\ \E bytes \in FloodChunks : ReadData(bytes)

\* the first port.read of the call delivers the response frame
ReadSurvey ==
    /\ Reading
    /\ line = "survey"
    /\ reads = <<>>
    /\ \E bytes \in SurveyResponses(op, pc) : ReadData(bytes)

\* port.read returns Ok(0)
ReadZero ==
    /\ Reading
    /\ rres' = OnZero(output)
    /\ reads' = Append(reads, Event("zero", <<>>))
    /\ UNCHANGED <<op, pc, arg, writes, sent, saved, rolling, output, expected,
                   nreads, line, opres, codecVars, rfidVars>>

\* port.read fails with ErrorKind::TimedOut
ReadTimeout ==
    /\ Reading
    /\ rres' = OnTimeout(output)
    /\ reads' = Append(reads, Event("timeout", <<>>))
    /\ UNCHANGED <<op, pc, arg, writes, sent, saved, rolling, output, expected,
                   nreads, line, opres, codecVars, rfidVars>>

\* port.read fails with another error
ReadError ==
    /\ Reading
    /\ rres' = OnError(output)
    /\ reads' = Append(reads, Event("error", <<>>))
    /\ UNCHANGED <<op, pc, arg, writes, sent, saved, rolling, output, expected,
                   nreads, line, opres, codecVars, rfidVars>>

Finish(r) == pc' = "done" /\ opres' = r /\ saved' = saved

\* read_from_serial has returned: the operation goes on with its result
Resume ==
    /\ pc \in ReadPcs
    /\ rres.kind # "running"
    /\ IF rres.kind = "panic" THEN Finish(Panic)
       ELSE LET sr == SingleRead(rres)
            IN  CASE op = "get_module_info" /\ pc = "read1" ->
                        pc' = "send2" /\ saved' = Append(saved, sr) /\ opres' = opres
                  [] op = "get_module_info" /\ pc = "read2" ->
                        pc' = "send3" /\ saved' = Append(saved, sr) /\ opres' = opres
                  [] op = "get_module_info" /\ pc = "read3" ->
                        /\ pc' = "done"
                        /\ saved' = Append(saved, sr)
                        /\ opres' = ModuleInfoResult(saved')
                  [] op = "get_working_area" -> Finish(WorkingAreaResult(sr))
                  [] op = "get_working_channel" /\ pc = "read1" ->
                        IF sr.kind = "Err" THEN Finish(Err(sr.err))
                        ELSE IF sr.pkt = <<>> THEN Finish(Err("NoPacketReceived"))
                        ELSE pc' = "send2" /\ saved' = <<sr>> /\ opres' = opres
                  [] op = "get_working_channel" /\ pc = "read2" ->
                        Finish(WorkingChannelResult(saved[1].pkt[1], WorkingAreaResult(sr)))
                  [] op = "get_transmit_power" -> Finish(TransmitPowerResult(sr))
                  [] op = "set_trasmission_power" -> Finish(SetPowerResult(sr))
                  [] op = "single_polling_instruction" -> Finish(PollResult(rres))
                  [] op = "read_from_serial" -> Finish(ReadResult(rres))
    /\ UNCHANGED <<op, arg, writes, sent, rolling, output, expected, reads, nreads,
                   line, rres, codecVars, rfidVars>>

Next ==
    \/ \E c \in Calls : Call(c)
    \/ SendPacket
    \/ WriteFails
    \/ FlushFails
    \/ ReadNormal
    \/ ReadFlood
    \/ ReadSurvey
    \/ ReadZero
    \/ ReadTimeout
    \/ ReadError
    \/ Resume

Spec == Init /\ [][Next]_vars

----------------------------------------------------------------------------
(* The codec on its own: every command is encoded, then framed or decoded *)

FromTuple_lenient(t) ==
    IF t[1] = <<>> \/ t[2] = <<>> THEN Panic
    ELSE LET code == t[1][1]
             sub == t[2][1]
         IN  CASE code = INSTRUCTION_READER_WRITER_MODULE_INFO
                    /\ sub = READ_WRITE_INFO_HARDWARE_VERSION -> Ok(Cmd("HardwareVersion"))
               [] code = INSTRUCTION_READER_WRITER_MODULE_INFO
                    /\ sub = READ_WRITE_INFO_SOFTWARE_VERSION -> Ok(Cmd("SoftwareVersion"))
               [] code = INSTRUCTION_READER_WRITER_MODULE_INFO
                    /\ sub \notin {READ_WRITE_INFO_HARDWARE_VERSION,
                                    READ_WRITE_INFO_SOFTWARE_VERSION} -> Ok(Cmd("Manufacturer"))
               [] code = 170 -> Ok(Cmd("GetWorkingChannel"))
               [] code = 8 -> Ok(Cmd("GetWorkingArea"))
               [] code = 183 -> Ok(Cmd("AcquireTransmitPower"))
               [] OTHER -> Err("InvalidCommand")

\* Command::from_tuple: match (tuple.0[0], tuple.1[0]); indexing an empty
\* vector faults
FromTuple(t) ==
    IF t[1] = <<>> \/ t[2] = <<>> THEN Panic
    ELSE LET code == t[1][1]
             sub == t[2][1]
         IN  CASE code = INSTRUCTION_READER_WRITER_MODULE_INFO
                    /\ sub = READ_WRITE_INFO_HARDWARE_VERSION -> Ok(Cmd("HardwareVersion"))
               [] code = INSTRUCTION_READER_WRITER_MODULE_INFO
                    /\ sub = READ_WRITE_INFO_SOFTWARE_VERSION -> Ok(Cmd("SoftwareVersion"))
               [] code = INSTRUCTION_READER_WRITER_MODULE_INFO
                    /\ sub = READ_WRITE_INFO_MANUFACTURER -> Ok(Cmd("Manufacturer"))
               [] code = INSTRUCTION_READER_WRITER_MODULE_INFO
                    /\ sub \notin {READ_WRITE_INFO_HARDWARE_VERSION,
                                    READ_WRITE_INFO_SOFTWARE_VERSION,
                                    READ_WRITE_INFO_MANUFACTURER} -> Err("InvalidCommand")
               [] code = 170 -> Ok(Cmd("GetWorkingChannel"))
               [] code = 8 -> Ok(Cmd("GetWorkingArea"))
               [] code = 183 -> Ok(Cmd("AcquireTransmitPower"))
               [] OTHER -> Err("InvalidCommand")

InitCodec ==
    /\ op = "none" /\ pc = "idle" /\ arg = <<>>
    /\ writes = <<>> /\ saved = <<>>
    /\ rolling = <<>> /\ output = <<>> /\ expected = <<>>
    /\ reads = <<>> /\ nreads = 0 /\ line = "normal" /\ sent = <<>>
    /\ rres = Res("idle") /\ opres = Pending
    /\ cmd \in AllCommands /\ tuple = <<>> /\ frame = <<>> /\ phase = "new"
    /\ decoded = <<>> /\ burst = <<>> /\ tags = <<>> /\ uniq = {}

\* Command::to_bytes
Encode ==
    /\ phase = "new"
    /\ tuple' = ToBytes(cmd)
    /\ phase' = "encoded"
    /\ UNCHANGED <<cmd, frame, connVars, decoded, rfidVars>>

\* Frame::new
BuildFrame ==
    /\ phase = "encoded"
    /\ frame' = FrameNew(cmd)
    /\ phase' = "framed"
    /\ UNCHANGED <<cmd, tuple, connVars, decoded, rfidVars>>

\* Frame::to_bytes
Serialize ==
    /\ phase = "framed"
    /\ frame' = FrameToBytes(frame)
    /\ phase' = "serialized"
    /\ UNCHANGED <<cmd, tuple, connVars, decoded, rfidVars>>

\* Command::from_tuple(cmd.to_bytes())
DecodeEncoded ==
    /\ phase = "encoded"
    /\ decoded' = FromTuple(tuple)
    /\ phase' = "roundtrip"
    /\ UNCHANGED <<cmd, tuple, frame, connVars, rfidVars>>

NextCodec == Encode \/ BuildFrame \/ Serialize \/ DecodeEncoded

SpecCodec == InitCodec /\ [][NextCodec]_vars

----------------------------------------------------------------------------
(* rfid.rs: the Rfid record, its identity, and the set of the tags seen *)

\* notifications of one poll burst
MaxBurst == 3

HexDigits == <<"0", "1", "2", "3", "4", "5", "6", "7",
               "8", "9", "A", "B", "C", "D", "E", "F">>

\* format!("{:02X}", b) for each byte; a String is the sequence of its chars
bytes_to_hex_upper(bytes) ==
    [i \in 1..(2 * Len(bytes)) |->
        IF i % 2 = 1 THEN HexDigits[(bytes[(i + 1) \div 2] \div 16) + 1]
                     ELSE HexDigits[(bytes[i \div 2] % 16) + 1]]

\* Rfid::from_raw; raw[15..17] needs a payload of 17 bytes or more
from_raw(raw) ==
    [rssi |-> raw[1],
     pc   |-> bytes_to_hex_upper(SubSeq(raw, 2, 3)),
     epc  |-> bytes_to_hex_upper(SubSeq(raw, 4, 15)),
     crc  |-> bytes_to_hex_upper(SubSeq(raw, 16, 17)),
     raw  |-> raw]

\* impl Hash for Rfid: what the record feeds to the Hasher
RfidHash(r) == r.epc

RfidEq_allFields(a, b) == a = b

\* impl PartialEq for Rfid
RfidEq(a, b) == a.epc = b.epc

\* HashSet::insert: the record is added unless the set holds one that hashes
\* alike and is equal to it
HashSetInsert(set, r) ==
    IF \E u \in set : RfidHash(u) = RfidHash(r) /\ RfidEq(u, r) THEN set
    ELSE set \cup {r}

\* TagData1 again with another RSSI, PC and CRC
TagData1b == <<70, 52, 0, 222, 173, 190, 239, 1, 2, 3, 4, 5, 0, 0, 0, 1, 2>>

\* TagData1 with another byte 13, one of the last three bytes of the EPC
TagData1c == <<55, 48, 18, 222, 173, 190, 239, 1, 2, 3, 4, 5, 0, 9, 0, 171, 205>>

\* the payload of test_parsing_rfid
TagData4 == <<188, 48, 0, 226, 128, 105, 21, 0, 0, 80, 29, 99, 226, 120, 79, 176, 183>>

TagPayloads == {TagData1, TagData1b, TagData1c, TagData2, TagData4}

RECURSIVE SeqsUpTo(_, _)
SeqsUpTo(S, n) ==
    IF n = 0 THEN {<<>>}
    ELSE SeqsUpTo(S, n - 1)
         \cup {Append(s, x) : s \in {t \in SeqsUpTo(S, n - 1) : Len(t) = n - 1}, x \in S}

InitRfid ==
    /\ op = "none" /\ pc = "idle" /\ arg = <<>>
    /\ writes = <<>> /\ saved = <<>>
    /\ rolling = <<>> /\ output = <<>> /\ expected = <<>>
    /\ reads = <<>> /\ nreads = 0 /\ line = "normal" /\ sent = <<>>
    /\ rres = Res("idle") /\ opres = Pending
    /\ cmd = Cmd("MultiplePollingInstruction") /\ tuple = <<>> /\ frame = <<>>
    /\ decoded = <<>>
    /\ phase = "burst"
    /\ burst \in SeqsUpTo(TagPayloads, MaxBurst)
    /\ tags = <<>>
    /\ uniq = {}

\* multi_polling_instruction returns one record per notification, in order
MultiPoll ==
    /\ phase = "burst"
    /\ tags' = [i \in 1..Len(burst) |-> from_raw(burst[i])]
    /\ phase' = "insert"
    /\ UNCHANGED <<burst, uniq, cmd, tuple, frame, decoded, connVars>>

\* one iteration of the loop over the records: unique_rfids.insert(i.clone())
InsertTag ==
    /\ phase = "insert"
    /\ tags # <<>>
    /\ uniq' = HashSetInsert(uniq, Head(tags))
    /\ tags' = Tail(tags)
    /\ UNCHANGED <<burst, phase, cmd, tuple, frame, decoded, connVars>>

NextRfid == MultiPoll \/ InsertTag

SpecRfid == InitRfid /\ [][NextRfid]_vars

----------------------------------------------------------------------------
(* The power codec on its own: every power in hundredths is encoded by the *)
(* command and read back from a response that carries the encoded bytes    *)

InitPower ==
    /\ op = "none" /\ pc = "idle" /\ arg = <<>>
    /\ writes = <<>> /\ saved = <<>>
    /\ rolling = <<>> /\ output = <<>> /\ expected = <<>>
    /\ reads = <<>> /\ nreads = 0 /\ line = "normal" /\ sent = <<>>
    /\ rres = Res("idle") /\ opres = Pending
    /\ cmd \in {[name |-> "SetTrasmissionPower", p |-> 10 * c] : c \in 0..(U16 - 1)}
    /\ tuple = <<>> /\ frame = <<>> /\ phase = "new"
    /\ decoded = <<>> /\ burst = <<>> /\ tags = <<>> /\ uniq = {}

\* get_transmit_power on a response whose payload is the encoded parameter
ReportPower ==
    /\ phase = "encoded"
    /\ decoded' = TransmitPowerResult(SingleRead(Some(<<MakeFrame(183, tuple[2])>>)))
    /\ phase' = "reported"
    /\ UNCHANGED <<cmd, tuple, frame, connVars, rfidVars>>

NextPower == Encode \/ ReportPower

SpecPower == InitPower /\ [][NextPower]_vars

----------------------------------------------------------------------------
(* frame.rs: Command::from_tuple on its own, for every opcode and every     *)
(* first parameter byte, and for a parameter vector that is empty          *)

TupleInputs ==
    {<<<<code>>, <<sub>>>> : code \in Byte, sub \in Byte}
    \cup {<<<<code>>, <<>>>> : code \in Byte}

InitDecode ==
    /\ op = "none" /\ pc = "idle" /\ arg = <<>>
    /\ writes = <<>> /\ saved = <<>>
    /\ rolling = <<>> /\ output = <<>> /\ expected = <<>>
    /\ reads = <<>> /\ nreads = 0 /\ line = "normal" /\ sent = <<>>
    /\ rres = Res("idle") /\ opres = Pending
    /\ cmd = Cmd("GetWorkingArea") /\ frame = <<>>
    /\ tuple \in TupleInputs
    /\ phase = "tuple"
    /\ decoded = <<>> /\ burst = <<>> /\ tags = <<>> /\ uniq = {}

\* Command::from_tuple
Decode ==
    /\ phase = "tuple"
    /\ decoded' = FromTuple(tuple)
    /\ phase' = "decoded"
    /\ UNCHANGED <<cmd, tuple, frame, connVars, rfidVars>>

NextDecode == Decode

SpecDecode == InitDecode /\ [][NextDecode]_vars

----------------------------------------------------------------------------
(* packet.rs: Packet on its own, on well-formed chunks of every shape and   *)
(* on chunks one byte longer or shorter than their declared length says     *)

\* [HEADER, direction, opcode, len_hi, len_lo, data.., checksum, END]
PacketChunk(d, code, data) ==
    LET len == Len(data) % U16
        v == <<R200_FRAME_HEADER, d, code>> \o BigEndian16(len) \o data
    IN  v \o <<(SumBytes(SubSeq(v, 3, Len(v))) % U16) % 256>> \o <<R200_FRAME_END>>

DirectionInputs == {0, 1, 2, 255}

OpcodeInputs == {3, 8, 34, 170, 221}

DataInputs == {<<>>, <<2>>, <<221>>, <<170, 7>>, <<72, 87, 33>>, TagData1,
               Zeros(255), Zeros(256), Zeros(300)}

WellFormedChunks ==
    {PacketChunk(d, code, data) :
        d \in DirectionInputs, code \in OpcodeInputs, data \in DataInputs}

ChunkInputs ==
    WellFormedChunks
    \cup {Append(w, R200_FRAME_END) : w \in WellFormedChunks}
    \cup {SubSeq(w, 1, Len(w) - 1) : w \in WellFormedChunks}
    \cup {BadLenShort, BadLenLong}

\* the fields a Packet gives for its chunk; get_data faults when the
\* declared length reaches past the chunk
PacketView(raw) ==
    [frame_type   |-> frame_type(raw),
     command_code |-> command_code(raw),
     data_len     |-> data_len(raw),
     data         |-> IF GetDataPanics(raw) THEN <<>> ELSE GetData(raw),
     faults       |-> GetDataPanics(raw),
     valid        |-> IsValid(raw)]

InitPacket ==
    /\ op = "none" /\ pc = "idle" /\ arg = <<>>
    /\ writes = <<>> /\ saved = <<>>
    /\ rolling = <<>> /\ output = <<>> /\ expected = <<>>
    /\ reads = <<>> /\ nreads = 0 /\ line = "normal" /\ sent = <<>>
    /\ rres = Res("idle") /\ opres = Pending
    /\ cmd = Cmd("GetWorkingArea") /\ tuple = <<>>
    /\ frame \in ChunkInputs
    /\ phase = "chunk"
    /\ decoded = <<>> /\ burst = <<>> /\ tags = <<>> /\ uniq = {}

\* Packet::new and the accessors
NewPacket ==
    /\ phase = "chunk"
    /\ decoded' = PacketView(frame)
    /\ phase' = "packet"
    /\ UNCHANGED <<cmd, tuple, frame, connVars, rfidVars>>

NextPacket == NewPacket

SpecPacket == InitPacket /\ [][NextPacket]_vars

----------------------------------------------------------------------------
(* Properties *)

DataRead(k) == Len(reads) >= k /\ reads[k].kind = "data"

TimedOutAt(k) == Len(reads) = k /\ reads[k].kind = "timeout"

\* C1: when one read delivers two complete well-formed frames back to back
\* and the next read times out, read_from_serial with no expected count
\* returns both packets in arrival order, each of them valid.
C1_TwoFramesInOneRead ==
    (/\ pc \in ReadPcs
     /\ expected = <<>>
     /\ DataRead(1) /\ reads[1].bytes = TwoFrames
     /\ TimedOutAt(2))
    => /\ rres = Some(<<FArea2, FChan7>>)
       /\ \A i \in 1..Len(rres.packets) : IsValid(rres.packets[i])

\* C2: during a read_from_serial call the rolling buffer holds at most 8192
\* bytes at the end of every loop iteration, whatever the transport delivers.
C2_RollingBounded == pc \in ReadPcs => Len(rolling) <= HighWater

C4_OnlyValidPackets == \A i \in 1..Len(output) : IsValid(output[i])

\* C5: the serialized frame of every command is HEADER, 0x00, opcode, the
\* big-endian parameter count, the parameters, the checksum (low 8 bits of
\* the sum from the opcode through the last parameter) and END, 7 + count
\* bytes in all; the frames of the documented examples are as documented.
C5_FrameLayout ==
    phase = "serialized" =>
        LET params == tuple[2]
            n == Len(params)
        IN  /\ Len(tuple[1]) = 1
            /\ Len(frame) = 7 + n
            /\ frame[1] = 170 /\ frame[2] = 0
            /\ frame[3] = tuple[1][1]
            /\ frame[4] = n \div 256 /\ frame[5] = n % 256
            /\ SubSeq(frame, 6, 5 + n) = params
            /\ frame[6 + n] = SumBytes(SubSeq(frame, 3, 5 + n)) % 256
            /\ frame[7 + n] = 221
            /\ cmd.name = "HardwareVersion" => frame = <<170, 0, 3, 0, 1, 0, 4, 221>>
            /\ cmd.name = "GetWorkingChannel" => frame = <<170, 0, 170, 0, 0, 170, 221>>
            /\ (cmd.name = "SetTrasmissionPower" /\ cmd.p = 26500)
                    => frame = <<170, 0, 182, 0, 2, 10, 90, 28, 221>>

C5_Witness ==
    /\ phase = "serialized"
    /\ cmd.name = "SetTrasmissionPower" /\ cmd.p = 26500
    /\ Len(frame) = 9

\* C6: Command::to_bytes gives every command its documented opcode and
\* parameter bytes: the module information commands 0x03 with 0x00, 0x01 or
\* 0x02; the five parameterless commands their opcode and no parameter; the
\* power and multiple polling commands a 2-byte big-endian parameter.
C6_CommandTable ==
    phase \in {"encoded", "framed", "serialized"} =>
        CASE cmd.name = "HardwareVersion" -> tuple = <<<<3>>, <<0>>>>
          [] cmd.name = "SoftwareVersion" -> tuple = <<<<3>>, <<1>>>>
          [] cmd.name = "Manufacturer" -> tuple = <<<<3>>, <<2>>>>
          [] cmd.name = "GetWorkingArea" -> tuple = <<<<8>>, <<>>>>
          [] cmd.name = "GetWorkingChannel" -> tuple = <<<<170>>, <<>>>>
          [] cmd.name = "AcquireTransmitPower" -> tuple = <<<<183>>, <<>>>>
          [] cmd.name = "SinglePollingInstruction" -> tuple = <<<<34>>, <<>>>>
          [] cmd.name = "StopMultiplePollingInstruction" -> tuple = <<<<40>>, <<>>>>
          [] cmd.name = "SetTrasmissionPower" ->
                /\ tuple[1] = <<182>>
                /\ Len(tuple[2]) = 2
                /\ tuple[2][1] \in Byte /\ tuple[2][2] \in Byte
                /\ (cmd.p >= 0 /\ cmd.p < 655360 /\ cmd.p % 125 = 0)
                        => tuple[2][1] * 256 + tuple[2][2] = cmd.p \div 10
                /\ cmd.p = 26500 => tuple[2] = <<10, 90>>
          [] cmd.name = "MultiplePollingInstruction" ->
                /\ tuple[1] = <<39>>
                /\ Len(tuple[2]) = 2
                /\ tuple[2][1] \in Byte /\ tuple[2][2] \in Byte
                /\ tuple[2][1] * 256 + tuple[2][2] = cmd.p

C6_Witness ==
    /\ phase = "encoded"
    /\ cmd.name = "MultiplePollingInstruction" /\ cmd.p = 257
    /\ tuple = <<<<39>>, <<1, 1>>>>

\* C7: when the buffer holds no HEADER byte after a read is appended, the
\* whole buffer is discarded, no packet is emitted, the collected packets
\* are unchanged and the call goes on reading.
C7_NoHeaderDiscards ==
    [][(/\ Reading
        /\ nreads' = nreads + 1
        /\ ~Contains(rolling \o Last(reads').bytes, R200_FRAME_HEADER))
        => /\ rolling' = <<>>
           /\ output' = output
           /\ rres' = rres
           /\ pc' = pc]_vars

C7_Witness ==
    /\ Reading
    /\ DataRead(2) /\ reads[1].bytes = FArea2 /\ reads[2].bytes = Noise
    /\ rolling = <<>>
    /\ output = <<FArea2>>

\* C8: while the buffer holds a HEADER byte and no END byte, no packet is
\* emitted and no byte is removed; a packet is emitted from such a buffer
\* only by a read that delivers an END byte.
C8_WaitsForEnd ==
    [][(Reading /\ nreads' = nreads + 1)
        => LET bytes == Last(reads').bytes
               buf == rolling \o bytes
           IN  /\ (Contains(buf, R200_FRAME_HEADER) /\ ~Contains(buf, R200_FRAME_END))
                    => /\ rolling' = buf
                       /\ output' = output
                       /\ rres' = rres
                       /\ pc' = pc
               /\ (/\ Contains(rolling, R200_FRAME_HEADER)
                   /\ ~Contains(rolling, R200_FRAME_END)
                   /\ output' # output)
                    => Contains(bytes, R200_FRAME_END)]_vars

C8_Witness ==
    /\ DataRead(2) /\ reads[1].bytes = HeadPart /\ reads[2].bytes = TailPart
    /\ Len(reads) = 2
    /\ expected = <<>>
    /\ rolling = <<>>
    /\ output = <<FArea3>>

\* C9: an operation that needs a response returns the NoPacketReceived
\* error when its read phase ends with a zero-byte read and no packet.
C9_AbsentResponse ==
    (/\ op \in NeedsResponse
     /\ pc = "done"
     /\ rres.kind = "None"
     /\ op = "get_module_info" =>
            /\ Len(saved) = 3
            /\ \A i \in 1..2 : saved[i].kind = "Ok" /\ saved[i].pkt # <<>>)
    => opres.kind = "Err" /\ opres.err = "NoPacketReceived"

\* C10: single_polling_instruction returns an error whenever its read phase
\* fails with a timeout or a read error, never a successful tag list.
C10_PollReadFailure ==
    (/\ op = "single_polling_instruction"
     /\ pc = "done"
     /\ rres.kind \in {"Timeout", "SerialRead"})
    => opres.kind = "Err"

\* C11: whatever bytes the transport delivers and however they are split
\* over the reads, read_from_serial is reading or has ended with a packet
\* list, with no data or with a typed error; it never faults on a slice or
\* an index out of range.
C11_NeverFaults ==
    pc \in ReadPcs => rres.kind \in {"running", "Some", "None", "Timeout", "SerialRead"}

\* the payloads of the packets the read phase of a poll has returned
PollPayloads == [i \in 1..Len(rres.packets) |-> GetData(rres.packets[i])]

PollDone == op = "single_polling_instruction" /\ pc = "done" /\ rres.kind = "Some"

\* C12: when a poll response other than the single no-tag response carries a
\* payload shorter than 17 bytes, single_polling_instruction ends with an
\* error value: no fault and no tag record.
C12_ShortPayloadIsError ==
    (/\ PollDone
     /\ \E i \in 1..Len(PollPayloads) : Len(PollPayloads[i]) < 17
     /\ ~(Len(PollPayloads) = 1 /\ PollPayloads[1][1] = NoTagSentinel))
    => opres.kind = "Err"

\* C13: single_polling_instruction returns the empty list when its read
\* phase yields exactly one packet whose payload byte 0 is 0x15; when it
\* yields two or more packets of full length, every packet gives a tag
\* record, those whose payload starts with 0x15 included.
C13_NoTagOnlyWhenAlone ==
    PollDone =>
        /\ (Len(PollPayloads) = 1 /\ PollPayloads[1][1] = NoTagSentinel)
                => opres.kind = "Ok" /\ Len(opres.val) = 0
        /\ (/\ Len(PollPayloads) >= 2
            /\ \A i \in 1..Len(PollPayloads) : Len(PollPayloads[i]) >= 17)
                => /\ opres.kind = "Ok"
                   /\ Len(opres.val) = Len(PollPayloads)
                   /\ \A i \in 1..Len(PollPayloads) :
                            opres.val[i].rssi = PollPayloads[i][1]

C13_Witness ==
    /\ PollDone
    /\ PollPayloads = <<TagData3, TagData1>>
    /\ opres.kind = "Ok"
    /\ Len(opres.val) = 2
    /\ opres.val[1].rssi = NoTagSentinel

\* C14: when the read phase of a poll yields n packets whose payloads have
\* at least 17 bytes (other than the single no-tag response),
\* single_polling_instruction returns n tag records in arrival order, and
\* record i has rssi = payload byte 0, pc = payload bytes 1..2, epc = the 12
\* payload bytes 3..14 and crc = payload bytes 15..16 of packet i.
C14_TagRecords ==
    (/\ PollDone
     /\ \A i \in 1..Len(PollPayloads) : Len(PollPayloads[i]) >= 17
     /\ ~(Len(PollPayloads) = 1 /\ PollPayloads[1][1] = NoTagSentinel))
    => /\ opres.kind = "Ok"
       /\ Len(opres.val) = Len(PollPayloads)
       /\ \A i \in 1..Len(PollPayloads) :
            LET d == PollPayloads[i]
                t == opres.val[i]
            IN  /\ t.rssi = d[1]
                /\ t.pc = d[2] * 256 + d[3]
                /\ t.epc = SubSeq(d, 4, 15)
                /\ t.crc = d[16] * 256 + d[17]

\* the records of the burst inserted so far
Inserted ==
    [i \in 1..(Len(burst) - Len(tags)) |-> from_raw(burst[i])]

\* C15: two Rfid records are equal and hash alike exactly when their EPC
\* fields are equal, whatever their rssi, pc, crc and raw bytes; the set the
\* records of a burst are inserted into holds exactly one entry per distinct
\* EPC inserted, whatever the order and the duplicates.
C15_EpcIdentity ==
    phase = "insert" =>
        /\ \A i, j \in 1..Len(burst) :
                LET a == from_raw(burst[i])
                    b == from_raw(burst[j])
                IN  (RfidEq(a, b) /\ RfidHash(a) = RfidHash(b))
                        <=> SubSeq(burst[i], 4, 15) = SubSeq(burst[j], 4, 15)
        /\ \A i \in 1..Len(Inserted) : \E u \in uniq : u.epc = Inserted[i].epc
        /\ \A u \in uniq : \E i \in 1..Len(Inserted) : u = Inserted[i]
        /\ \A u, v \in uniq : u.epc = v.epc => u = v
        /\ Cardinality(uniq)
                = Cardinality({SubSeq(burst[i], 4, 15) : i \in 1..Len(Inserted)})

C15_Witness ==
    /\ phase = "insert"
    /\ burst = <<TagData1, TagData1b, TagData1c>>
    /\ tags = <<>>
    /\ Cardinality(uniq) = 2

\* payload byte 0 of the packet the last read_from_serial call returned
ResponseByte == GetData(Last(rres.packets))[1]

\* C16: get_working_area returns China900Mhz, China800Mhz, US, EU, Korea for
\* the response payload byte 0 equal to 0, 1, 2, 3, 4, and the
\* InvalidWorkingArea error for every byte from 5 to 255.
C16_WorkingAreaTable ==
    (op = "get_working_area" /\ pc = "done" /\ rres.kind = "Some") =>
        CASE ResponseByte = 0 -> opres.kind = "Ok" /\ opres.val = "China900Mhz"
          [] ResponseByte = 1 -> opres.kind = "Ok" /\ opres.val = "China800Mhz"
          [] ResponseByte = 2 -> opres.kind = "Ok" /\ opres.val = "US"
          [] ResponseByte = 3 -> opres.kind = "Ok" /\ opres.val = "EU"
          [] ResponseByte = 4 -> opres.kind = "Ok" /\ opres.val = "Korea"
          [] OTHER -> opres.kind = "Err" /\ opres.err = "InvalidWorkingArea"

C16_Witness ==
    /\ op = "get_working_area" /\ pc = "done" /\ rres.kind = "Some"
    /\ ResponseByte = 4
    /\ opres.kind = "Ok" /\ opres.val = "Korea"

\* kHz per channel and kHz of channel 0, by area code
StepKHz == <<250, 250, 500, 200, 200>>

BaseKHz == <<920125, 840125, 902250, 865100, 917100>>

\* C17: when the channel response carries index i and the area response that
\* follows carries area code a in 0..4, get_working_channel returns
\* i * step + base of that area, in kHz, for every index 0..255.
C17_ChannelFrequency ==
    [][(/\ op = "get_working_channel"
        /\ pc = "read2" /\ pc' = "done"
        /\ rres.kind = "Some"
        /\ ResponseByte \in 0..4)
        => LET i == GetData(saved[1].pkt[1])[1]
               a == ResponseByte
           IN  /\ opres'.kind = "Ok"
               /\ opres'.val = i * StepKHz[a + 1] + BaseKHz[a + 1]]_vars

C17_Witness ==
    /\ op = "get_working_channel" /\ pc = "done"
    /\ line = "survey"
    /\ Len(saved) = 1 /\ GetData(saved[1].pkt[1])[1] = 255
    /\ rres.kind = "Some" /\ ResponseByte = 3
    /\ opres.kind = "Ok" /\ opres.val = 255 * 200 + 865100

\* C19: set_trasmission_power returns Ok only when a response packet was
\* received and its payload byte 0 is 0x00; when a packet with another first
\* byte was received, or the read ended with no packet, it returns the
\* NoPacketReceived error.
C19_SetPowerAck ==
    (op = "set_trasmission_power" /\ pc = "done") =>
        /\ opres.kind = "Ok" => rres.kind = "Some" /\ ResponseByte = 0
        /\ (rres.kind = "Some" /\ ResponseByte # 0)
                => opres.kind = "Err" /\ opres.err = "NoPacketReceived"
        /\ rres.kind = "None"
                => opres.kind = "Err" /\ opres.err = "NoPacketReceived"

C19_Witness ==
    /\ op = "set_trasmission_power" /\ pc = "done"
    /\ rres.kind = "Some" /\ ResponseByte = 0
    /\ opres.kind = "Ok"

\* C18: for every c in 0..65535, SetTrasmissionPower(c / 100) emits the
\* bytes [c >> 8, c & 0xFF] (26.50 gives 0x0A 0x5A), get_transmit_power on a
\* payload [hi, lo] returns (hi * 256 + lo) / 100 without 16-bit overflow
\* (0x0A 0xBE gives 27.50), and so decoding the encoded bytes gives back c.
C18_PowerRoundTrip ==
    LET c == cmd.p \div 10
    IN  /\ phase \in {"encoded", "reported"} =>
            /\ tuple = <<<<182>>, <<c \div 256, c % 256>>>>
            /\ c = 2650 => tuple[2] = <<10, 90>>
        /\ phase = "reported" =>
            /\ decoded.kind = "Ok"
            /\ decoded.val = tuple[2][1] * 256 + tuple[2][2]
            /\ tuple[2] = <<10, 190>> => decoded.val = 2750
            /\ decoded.val = c

\* C20: from_tuple applied to (opcode, first parameter byte) returns
\* HardwareVersion, SoftwareVersion, Manufacturer for opcode 0x03 with 0x00,
\* 0x01, 0x02 and InvalidCommand for 0x03 with any other sub-code; it
\* returns GetWorkingChannel, GetWorkingArea, AcquireTransmitPower for the
\* opcodes 0xAA, 0x08, 0xB7 whatever the parameter byte; it returns
\* InvalidCommand for every other opcode.
C20_FromTupleTable ==
    (phase = "decoded" /\ tuple[2] # <<>>) =>
        LET code == tuple[1][1]
            sub == tuple[2][1]
            Gives(n) == decoded.kind = "Ok" /\ decoded.val = Cmd(n)
            Invalid == decoded.kind = "Err" /\ decoded.err = "InvalidCommand"
        IN  CASE code = 3 /\ sub = 0 -> Gives("HardwareVersion")
              [] code = 3 /\ sub = 1 -> Gives("SoftwareVersion")
              [] code = 3 /\ sub = 2 -> Gives("Manufacturer")
              [] code = 3 /\ sub > 2 -> Invalid
              [] code = 170 -> Gives("GetWorkingChannel")
              [] code = 8 -> Gives("GetWorkingArea")
              [] code = 183 -> Gives("AcquireTransmitPower")
              [] OTHER -> Invalid

C20_Witness ==
    /\ phase = "decoded"
    /\ tuple = <<<<3>>, <<255>>>>
    /\ decoded.kind = "Err" /\ decoded.err = "InvalidCommand"

\* C21: a chunk built as [0xAA, d, o, n_hi, n_lo, data.., checksum, 0xDD]
\* decodes as a Packet with frame type d, command code o, declared length
\* n = Len(data) and payload data, and is valid; a chunk whose length
\* differs from 7 + its declared length is not valid.
C21_PacketDecode ==
    phase = "packet" =>
        /\ \A d \in DirectionInputs, code \in OpcodeInputs, data \in DataInputs :
                frame = PacketChunk(d, code, data)
                    => /\ decoded.frame_type = d
                       /\ decoded.command_code = code
                       /\ decoded.data_len = Len(data)
                       /\ ~decoded.faults
                       /\ decoded.data = data
                       /\ decoded.valid
        /\ Len(frame) # 7 + frame[4] * 256 + frame[5] => ~decoded.valid

C21_Witness ==
    /\ phase = "packet"
    /\ frame = PacketChunk(255, 170, Zeros(300))
    /\ decoded.data_len = 300
    /\ decoded.valid

\* the request/response round a position of an operation belongs to
RoundOf(p) ==
    CASE p \in {"send1", "read1"} -> 1
      [] p \in {"send2", "read2"} -> 2
      [] p \in {"send3", "read3"} -> 3

RequestFrame(n) == FrameToBytes(FrameNew(Cmd(n)))

\* C22: in every operation requests and reads alternate: a request is
\* written only at a send position, one frame at a time, while no read is
\* in progress; a transport read for round n happens only after exactly n
\* requests were written; in get_working_channel the area request is written
\* after the channel request was written and its response was read.
C22_RequestsAndReadsAlternate ==
    [][/\ writes' # writes
            => /\ pc \in SendPcs
               /\ rres.kind # "running"
               /\ Len(writes) = RoundOf(pc) - 1
               /\ writes' = Append(writes, Last(writes'))
       /\ (reads' # reads /\ reads' # <<>>)
            => /\ pc \in ReadPcs
               /\ Len(writes) = IF op = "read_from_serial" THEN 0 ELSE RoundOf(pc)
       /\ (op = "get_working_channel" /\ Len(writes) = 1 /\ Len(writes') = 2)
            => /\ writes'[1] = RequestFrame("GetWorkingChannel")
               /\ writes'[2] = RequestFrame("GetWorkingArea")
               /\ rres.kind = "Some"
               /\ saved = <<SingleRead(rres)>>
               /\ saved[1].pkt # <<>>]_vars

C22_Witness ==
    /\ op = "get_working_channel" /\ pc = "done"
    /\ writes = <<RequestFrame("GetWorkingChannel"), RequestFrame("GetWorkingArea")>>
    /\ opres.kind = "Ok"

\* C23: the rolling buffer is session state: when a read_from_serial call
\* has returned a frame, the bytes received after the END byte of that frame
\* are in the buffer at the start of the next read_from_serial call.
C23_BufferOutlivesCall ==
    [][(/\ pc \in {"send2", "send3"}
        /\ pc' \in ReadPcs
        /\ rres.kind = "Some")
        => rolling' = Drain(rolling)]_vars

\* C24: with an expected count k, read_from_serial never holds more than k
\* collected packets and has returned them, with no further transport read,
\* as soon as it holds k; single_read_from_serial gives at most one packet,
\* and none when the collection came back absent or empty.
C24_ExpectedCount ==
    (pc \in ReadPcs /\ expected # <<>>) =>
        /\ Len(output) <= expected[1]
        /\ Len(output) = expected[1] => rres = Some(output)
        /\ rres.kind = "running" => Len(output) < expected[1]
        /\ (expected = <<1>> /\ rres.kind \in {"Some", "None"}) =>
                LET sr == SingleRead(rres)
                IN  /\ sr.kind = "Ok"
                    /\ Len(sr.pkt) <= 1
                    /\ rres.packets = <<>> => sr.pkt = <<>>
                    /\ rres.packets # <<>> => sr.pkt = <<Last(output)>>

C24_Witness ==
    /\ op = "read_from_serial" /\ pc = "read1"
    /\ expected = <<2>>
    /\ Len(reads) = 2
    /\ rres = Some(output)
    /\ Len(output) = 2

\* C25: when the chunk cut from the buffer is framed and declares a payload
\* of length 0, it is not added to the collected packets, the call goes on
\* as if nothing had been collected, and the buffer loses its bytes up to
\* and including the END byte of the chunk.
C25_EmptyPayloadDropped ==
    [][(Reading /\ nreads' = nreads + 1)
        => LET buf == rolling \o Last(reads').bytes
           IN  (/\ Contains(buf, R200_FRAME_HEADER)
                /\ Contains(buf, R200_FRAME_END)
                /\ ~SlicePanics(buf)
                /\ Framed(Candidate(buf))
                /\ data_len(Candidate(buf)) = 0
                /\ Len(buf) <= HighWater)
                => /\ output' = output
                   /\ rres' = rres
                   /\ pc' = pc
                   /\ rolling' = SubSeq(buf, Position(buf, R200_FRAME_END) + 1, Len(buf))]_vars

C25_Witness ==
    /\ Reading
    /\ expected = <<2>>
    /\ Len(reads) = 2
    /\ DataRead(2) /\ reads[1].bytes = FArea2 /\ reads[2].bytes = EmptyPayload
    /\ output = <<FArea2>>
    /\ rolling = <<>>

\* C26: a transport read that returns zero bytes with no error ends the
\* call at once with the no-data result, whether or not packets were
\* collected earlier in the call.
C26_ZeroReadIsNoData ==
    [][(Reading /\ reads' = Append(reads, Event("zero", <<>>)))
        => rres' = Res("None") /\ pc' = pc]_vars

C26_Witness ==
    /\ pc \in ReadPcs
    /\ Len(reads) = 2 /\ reads[2].kind = "zero"
    /\ output # <<>>
    /\ rres = Res("None")

\* C27: a transport read that fails with an error other than a timeout
\* ends the call with the SerialRead error, never with Timeout and never
\* with a packet list, whether or not packets were collected earlier.
C27_ReadErrorIsSerialRead ==
    [][(Reading /\ reads' = Append(reads, Event("error", <<>>)))
        => rres' = Res("SerialRead") /\ pc' = pc]_vars

C27_Witness ==
    /\ pc \in ReadPcs
    /\ Len(reads) = 2 /\ reads[2].kind = "error"
    /\ output # <<>>
    /\ rres = Res("SerialRead")

\* the transport does not stay silent: while a call is reading, a timeout, a
\* zero-byte read or an error is eventually reported unless the call ends
SpecLive == Spec /\ WF_vars(ReadTimeout \/ ReadZero \/ ReadError)

C29_ModuleInfo ==
    (op = "get_module_info" /\ pc = "done" /\ Len(saved) = 3) =>
        /\ writes = <<RequestFrame("HardwareVersion"),
                      RequestFrame("SoftwareVersion"),
                      RequestFrame("Manufacturer")>>
        /\ (\A i \in 1..3 : saved[i].kind = "Ok" /\ saved[i].pkt # <<>>)
                => /\ opres.kind = "Ok"
                   /\ \A i \in 1..3 : opres.val[i] = PacketToString(saved[i].pkt[1])
        /\ (\E i \in 1..3 : saved[i].kind = "Err" \/ saved[i].pkt = <<>>)
                => opres.kind = "Err"

\* C30 as stated: whenever a read_from_serial call ends without an error,
\* its result holds every packet collected during the call, in order.
C30_NoPacketLost ==
    (pc \in ReadPcs /\ rres.kind \in {"Some", "None"}) => rres.packets = output

\* C30, amended: the collection only grows, one packet at a time and at its
\* end; whenever the call ends with a packet list, the list is the whole
\* collection, in collection order, and it is not empty; a call that ends
\* with the no-data result carries no packet, whatever was collected.
C30_ListHoldsCollection ==
    [][Reading =>
        /\ \/ output' = output
           \/ /\ Len(output') = Len(output) + 1
              /\ SubSeq(output', 1, Len(output)) = output
              /\ Last(output') = Candidate(rolling \o Last(reads').bytes)
        /\ rres'.kind = "Some" => rres'.packets = output' /\ output' # <<>>
        /\ rres'.kind = "None" => rres'.packets = <<>>]_vars

C30_Witness ==
    /\ op = "single_polling_instruction" /\ pc = "read1"
    /\ TimedOutAt(3)
    /\ output = <<FTag1, FTag2>>
    /\ rres = Some(<<FTag1, FTag2>>)

\* the port refused the last send_packet of the operation
SendFailed == sent # <<>> /\ Last(sent) # "ok"

\* C31: when writing or flushing a request fails, the operation returns the
\* Io error at once: the failing step ends the operation with Io, it starts
\* no read_from_serial call and performs no transport read, at most the
\* request being flushed has reached the port, and afterwards the operation
\* writes no further request and reads nothing.
C31_SendFailureReturnsIo ==
    [][/\ (sent' # sent /\ Last(sent') # "ok")
            => /\ pc' = "done"
               /\ opres' = Err("Io")
               /\ reads' = reads /\ nreads' = nreads /\ rres' = rres
               /\ \/ writes' = writes
                  \/ /\ Last(sent') = "flush"
                     /\ writes' = Append(writes,
                                    FrameToBytes(FrameNew(CommandAt(op, pc, arg))))
       /\ SendFailed
            => /\ writes' = writes /\ sent' = sent
               /\ reads' = reads /\ nreads' = nreads
               /\ pc' = "done" /\ opres' = Err("Io")]_vars

\* the flush of the second request of get_module_info failed after the first
\* round was read: two frames were written, the third never is
C31_Witness ==
    /\ op = "get_module_info" /\ pc = "done"
    /\ sent = <<"ok", "flush">>
    /\ Len(writes) = 2 /\ Len(saved) = 1
    /\ opres = Err("Io")

\* a bare read_from_serial call whose first transport read delivered one
\* whole well-formed frame into the empty rolling buffer
WholeFrameRead ==
    /\ op = "read_from_serial" /\ line = "survey"
    /\ DataRead(1)

\* C32: a well-formed frame that arrives whole in one read with an empty
\* rolling buffer is delivered with its complete payload, whatever the byte
\* values of its payload and checksum (0xDD and 0xAA included): the call does
\* not fault and the packet collected from the read carries the payload the
\* frame was built with.
C32_WholeFrameDelivered ==
    WholeFrameRead
        => /\ rres.kind # "panic"
           /\ Len(output) = 1
           /\ GetData(output[1]) = PayloadOf(reads[1].bytes)

\* the commands Command::from_tuple can return
DecodeSupported ==
    {"HardwareVersion", "SoftwareVersion", "Manufacturer",
     "GetWorkingArea", "GetWorkingChannel", "AcquireTransmitPower"}

\* C33: decoding inverts encoding for the commands decode supports: for
\* HardwareVersion, SoftwareVersion, Manufacturer, GetWorkingArea,
\* GetWorkingChannel and AcquireTransmitPower, from_tuple(cmd.to_bytes())
\* returns the same command, the commands with an empty parameter list
\* included.
C33_DecodeInvertsEncode ==
    (phase = "roundtrip" /\ cmd.name \in DecodeSupported)
        => /\ decoded.kind = "Ok"
           /\ decoded.val = cmd

====
